---- MODULE Spec2Model ----
(***************************************************************************)
(* A model of src/app.py: a Streamlit chat page in front of the Gemini     *)
(* client library.                                                         *)
(*                                                                         *)
(* Text is a sequence of one-character strings, so that strip(), the       *)
(* f-strings of get_gemini_response and the error text are computed        *)
(* character by character.  Credentials are opaque atoms.                  *)
(*                                                                         *)
(* One script run (Streamlit executes app.py top to bottom for every       *)
(* widget event) is one atomic step: its inputs are the environment seen   *)
(* by load_dotenv()/os.getenv, the widget values of the run and the        *)
(* outcome of the remote call.  A run that ends in st.rerun() includes     *)
(* the run that st.rerun() starts.                                         *)
(*                                                                         *)
(* The message timestamps (lines 247, 263) are display-only and are left   *)
(* out of the message records.                                             *)
(***************************************************************************)
EXTENDS Integers, Sequences, FiniteSets, TLC

VARIABLES
    env_api_key,   \* os.environ["GEMINI_API_KEY"], NoKey when unset
    genai_key,     \* the key of the process-wide genai.configure() call
    ss,            \* st.session_state of every session, plus its widget state
    ev             \* what the last step did (observation only)

vars == <<env_api_key, genai_key, ss, ev>>

----------------------------------------------------------------------------
(* Bounds of the model *)

\* longest conversation log a send may start from (programme runs)
MaxLog == 2
\* longest conversation log a send may start from (two sessions)
MaxLogSessions == 0
\* longest chat_history handed to get_gemini_response (gateway runs)
MaxHist == 15
\* number of distinguishable handle objects per session
HandleIds == 3

\* chat_history[-10:] if len(chat_history) > 10
WINDOW == 10

----------------------------------------------------------------------------
(* Text *)

NoKey == ""
NoText == << >>

WHITESPACE == {" ", "\t", "\n"}

ROLE_USER == <<"u", "s", "e", "r">>
ROLE_ASSISTANT == <<"a", "s", "s", "i", "s", "t", "a", "n", "t">>
COLON_SPACE == <<":", " ">>
NEWLINE == <<"\n">>
ERROR_PREFIX == <<"E", "r", "r", "o", "r", " ", "g", "e", "t", "t", "i", "n", "g", " ",
                  "r", "e", "s", "p", "o", "n", "s", "e", ":", " ">>

RECURSIVE lstrip(_)
lstrip(s) ==
    IF s # NoText /\ Head(s) \in WHITESPACE THEN lstrip(Tail(s)) ELSE s

RECURSIVE rstrip(_)
rstrip(s) ==
    IF s # NoText /\ s[Len(s)] \in WHITESPACE
        THEN rstrip(SubSeq(s, 1, Len(s) - 1))
        ELSE s

\* str.strip()
strip(s) == rstrip(lstrip(s))

----------------------------------------------------------------------------
(* Sessions, credentials, inputs *)

Sessions == {"s1", "s2"}

\* credentials that genai.configure / GenerativeModel reject
BadKeys == {"bad"}

\* what the environment variable may hold
EnvKeys == {"kE", "bad"}

\* what a user may type into the key field
TypedKeys == {"k1", "k2", "bad"}

\* the key each of two concurrent sessions types
OwnKey(s) == IF s = "s1" THEN "k1" ELSE "k2"

\* what a user may type into the message field
Texts == { NoText, <<" ">>, <<" ", "\t">>, <<"h", "i">>, <<" ", "y", " ">> }

\* outcome of chat.send_message / response.text: a reply or a raised error
Outcomes ==
    { [ok |-> TRUE,  text |-> <<"o", "k">>],
      [ok |-> TRUE,  text |-> ERROR_PREFIX \o <<"4", "2", "9">>],
      [ok |-> FALSE, text |-> <<"4", "2", "9">>] }

\* st.session_state.model = None
None == [owner |-> "", key |-> NoKey, gen |-> 0, client |-> NoKey]

\* same Python object
SameObject(h1, h2) == h1.owner = h2.owner /\ h1.gen = h2.gen

Message(role, content) == [role |-> role, content |-> content]

NoCall ==
    [called |-> FALSE, history |-> << >>, context |-> NoText, prompt |-> NoText,
     used_key |-> NoKey, handle_key |-> NoKey, raised |-> FALSE, text |-> NoText,
     returned |-> NoText]

NoEvent ==
    [s |-> "", kind |-> "none", env |-> NoKey, typed |-> NoKey, user_input |-> NoText,
     nbefore |-> 0, cfg_failed |-> FALSE, call |-> NoCall]

----------------------------------------------------------------------------
(* configure_gemini, lines 75-84 *)

\* genai.GenerativeModel('gemini-2.5-pro'): a new object.  It is built from
\* no credential of its own; `key` records the credential configured when
\* it was built, `client` the credential its client was made with (none
\* until the first request).
GenerativeModel(s, old, api_key) ==
    [owner |-> s, key |-> api_key, gen |-> (old.gen + 1) % HandleIds, client |-> NoKey]

\* returns the model (or None), the process-wide key and whether st.error ran
configure_gemini(s, old, api_key, g) ==
    IF api_key \in BadKeys
        THEN [model |-> None, g |-> g, error |-> TRUE]
        ELSE [model |-> GenerativeModel(s, old, api_key), g |-> api_key, error |-> FALSE]

----------------------------------------------------------------------------
(* get_gemini_response, lines 86-103 *)

recent_history_first(chat_history) ==
    IF Len(chat_history) > WINDOW
        THEN SubSeq(chat_history, 1, WINDOW)
        ELSE chat_history

\* line 93
recent_history(chat_history) ==
    IF Len(chat_history) > WINDOW
        THEN SubSeq(chat_history, Len(chat_history) - WINDOW + 1, Len(chat_history))
        ELSE chat_history

RoleText(role) == IF role = "user" THEN ROLE_USER ELSE ROLE_ASSISTANT

\* line 96: f"{msg['role']}: {msg['content']}\n"
render_line(msg) == RoleText(msg.role) \o COLON_SPACE \o msg.content \o NEWLINE

\* lines 94-96
RECURSIVE render_context(_, _)
render_context(context, msgs) ==
    IF msgs = << >>
        THEN context
        ELSE render_context(context \o render_line(Head(msgs)), Tail(msgs))

full_prompt_roleless(context, prompt) ==
    IF context # NoText THEN context \o NEWLINE \o prompt ELSE prompt

\* line 99: f"{context}\nuser: {prompt}" if context else prompt
full_prompt(context, prompt) ==
    IF context # NoText
        THEN context \o NEWLINE \o ROLE_USER \o COLON_SPACE \o prompt
        ELSE prompt

error_text_bare(e) == e

\* line 103: f"Error getting response: {str(e)}"
error_text(e) == ERROR_PREFIX \o e

\* The whole function.  The request is made with the credential of the
\* model's client, which the library makes from the process-wide
\* configuration on the model's first request.
get_gemini_response(model, prompt, chat_history, outcome, g) ==
    LET context == render_context(NoText, recent_history(chat_history))
        sent    == full_prompt(context, prompt)
        client  == IF model.client = NoKey THEN g ELSE model.client
        text    == IF outcome.ok THEN outcome.text ELSE error_text(outcome.text)
    IN  [text  |-> text,
         model |-> [model EXCEPT !.client = client],
         call  |-> [called |-> TRUE, history |-> chat_history, context |-> context,
                    prompt |-> sent, used_key |-> client, handle_key |-> model.key,
                    raised |-> ~outcome.ok, text |-> outcome.text, returned |-> text]]

----------------------------------------------------------------------------
(* main, lines 105-276 *)

\* lines 113-136: the sidebar's key handling.  `typed` is the value of the
\* key field, which exists only when the environment holds no key.
Sidebar(st, s, env, typed, g) ==
    IF env # NoKey
        THEN IF st.model = None
                THEN LET c == configure_gemini(s, st.model, env, g)
                     IN  [st |-> [st EXCEPT !.api_key = env, !.model = c.model],
                          g |-> c.g, failed |-> c.error]
                ELSE [st |-> [st EXCEPT !.api_key = env], g |-> g, failed |-> FALSE]
        ELSE IF typed # NoKey
                THEN LET c == configure_gemini(s, st.model, typed, g)
                     IN  [st |-> [st EXCEPT !.api_key_input = typed,
                                            !.api_key = typed, !.model = c.model],
                          g |-> c.g, failed |-> c.error]
                ELSE [st |-> [st EXCEPT !.api_key_input = typed],
                      g |-> g, failed |-> FALSE]

ClearedLog_keep(messages) == messages

\* line 144
ClearedLog(messages) == << >>

SendAccepted_nostrip(send_button, user_input) ==
    send_button /\ user_input # NoText

\* line 242
SendAccepted(send_button, user_input) ==
    send_button /\ strip(user_input) # NoText

append_front(messages, m) == <<m>> \o messages

\* list.append, lines 244 and 260
append(messages, m) == Append(messages, m)

\* lines 169-267: the chat interface
Chat(st, send_button, user_input, outcome, g) ==
    IF ~(st.api_key # NoKey)
        THEN [st |-> [st EXCEPT !.rendered = "sidebar"], rerun |-> FALSE, call |-> NoCall]
    ELSE IF ~(st.model # None)
        THEN [st |-> [st EXCEPT !.rendered = "sidebar"], rerun |-> FALSE, call |-> NoCall]
    ELSE IF SendAccepted(send_button, user_input)
        THEN LET m1 == append(st.messages, Message("user", user_input))
                 r  == get_gemini_response(st.model, user_input,
                                           SubSeq(m1, 1, Len(m1) - 1), outcome, g)
                 m2 == append(m1, Message("assistant", r.text))
             IN  [st |-> [st EXCEPT !.messages = m2, !.model = r.model,
                                    !.rendered = "chat"],
                  rerun |-> TRUE, call |-> r.call]
    ELSE [st |-> [st EXCEPT !.rendered = "chat"], rerun |-> FALSE, call |-> NoCall]

\* the run st.rerun() starts: same widget values, no button pressed
Rerun(st, s, env, g) ==
    LET sb == Sidebar(st, s, env, st.api_key_input, g)
        ch == Chat(sb.st, FALSE, NoText, CHOOSE o \in Outcomes : TRUE, sb.g)
    IN  [st |-> ch.st, g |-> sb.g]

\* one run of the script for session s, with the run st.rerun() starts
Script(s, env, typed, clear_button, send_button, user_input, outcome) ==
    LET sb == Sidebar(ss[s], s, env, typed, genai_key)
    IN  IF clear_button
            THEN LET rr == Rerun([sb.st EXCEPT !.messages = ClearedLog(@)], s, env, sb.g)
                 IN  [st |-> rr.st, g |-> rr.g, failed |-> sb.failed, call |-> NoCall]
            ELSE LET ch == Chat(sb.st, send_button, user_input, outcome, sb.g)
                     rr == Rerun(ch.st, s, env, sb.g)
                 IN  IF ch.rerun
                        THEN [st |-> rr.st, g |-> rr.g, failed |-> sb.failed,
                              call |-> ch.call]
                        ELSE [st |-> ch.st, g |-> sb.g, failed |-> sb.failed,
                              call |-> ch.call]

\* the step a run takes
Run(s, kind, env, typed, clear_button, send_button, user_input, outcome) ==
    LET r == Script(s, env, typed, clear_button, send_button, user_input, outcome)
    IN  /\ env_api_key' = env
        /\ genai_key' = r.g
        /\ ss' = [ss EXCEPT ![s] = r.st]
        /\ ev' = [s |-> s, kind |-> kind, env |-> env, typed |-> typed,
                  user_input |-> user_input, nbefore |-> Len(ss[s].messages),
                  cfg_failed |-> r.failed, call |-> r.call]

\* lines 9 and 114: load_dotenv() sets the variable if it is not set yet,
\* so a run sees the key the process has, or one that a .env file now gives
EnvSeen(envs) == IF env_api_key # NoKey THEN {env_api_key} ELSE {NoKey} \cup envs

\* the key field is on the page when the last run found no key in the environment
KeyFieldShown(s) == ss[s].rendered # "none" /\ env_api_key = NoKey

\* the value the key field has in a run: left as it is, or typed anew
TypedNow(s, keys) ==
    IF KeyFieldShown(s) THEN {ss[s].api_key_input} \cup keys \cup {NoKey}
    ELSE {ss[s].api_key_input}

\* lines 67-73
NewSession ==
    [messages |-> << >>, api_key |-> NoKey, model |-> None,
     api_key_input |-> NoKey, rendered |-> "none"]

----------------------------------------------------------------------------
(* Events *)

\* the page is opened, or re-run with nothing pressed (lines 105-276)
PageRun(s, envs) ==
    \E env \in EnvSeen(envs) :
        Run(s, "run", env, ss[s].api_key_input, FALSE, FALSE, NoText,
            CHOOSE o \in Outcomes : TRUE)

\* a key is typed into the sidebar's field (lines 124-136)
Configure(s, envs, keys) ==
    /\ KeyFieldShown(s)
    /\ \E env \in EnvSeen(envs), typed \in keys \cup {NoKey} :
        Run(s, "configure", env, typed, FALSE, FALSE, NoText,
            CHOOSE o \in Outcomes : TRUE)

\* "Clear Chat History" is pressed (lines 143-145)
Clear(s, envs) ==
    /\ ss[s].rendered # "none"
    /\ \E env \in EnvSeen(envs) :
        Run(s, "clear", env, ss[s].api_key_input, TRUE, FALSE, NoText,
            CHOOSE o \in Outcomes : TRUE)

\* "Send" is pressed, possibly in the run that also carries a newly typed
\* key (lines 231-267)
Send(s, envs, keys, texts, outcomes, maxlog) ==
    /\ ss[s].rendered = "chat"
    /\ Len(ss[s].messages) <= maxlog
    /\ \E env \in EnvSeen(envs), typed \in TypedNow(s, keys),
          user_input \in texts, outcome \in outcomes :
        Run(s, "send", env, typed, FALSE, TRUE, user_input, outcome)

----------------------------------------------------------------------------
(* The programme with one session *)

Init ==
    /\ env_api_key \in {NoKey} \cup EnvKeys
    /\ genai_key = NoKey
    /\ ss = [s \in Sessions |-> NewSession]
    /\ ev = NoEvent

Next ==
    \/ PageRun("s1", EnvKeys)
    \/ Configure("s1", EnvKeys, TypedKeys)
    \/ Clear("s1", EnvKeys)
    \/ Send("s1", EnvKeys, TypedKeys, Texts, Outcomes, MaxLog)

Spec == Init /\ [][Next]_vars

----------------------------------------------------------------------------
(* The programme with two sessions in one process, each typing its own key *)

InitSessions ==
    /\ env_api_key = NoKey
    /\ genai_key = NoKey
    /\ ss = [s \in Sessions |-> NewSession]
    /\ ev = NoEvent

SessionTexts == { <<"h", "i">> }

SessionOutcomes == { [ok |-> TRUE, text |-> <<"o", "k">>] }

NextSessions ==
    \E s \in Sessions :
        \/ PageRun(s, {})
        \/ Configure(s, {}, {OwnKey(s)})
        \/ Clear(s, {})
        \/ Send(s, {}, {OwnKey(s)}, SessionTexts, SessionOutcomes, MaxLogSessions)

SpecSessions == InitSessions /\ [][NextSessions]_vars

----------------------------------------------------------------------------
(* get_gemini_response over every chat history up to MaxHist turns *)

\* session s1 after its first run, with a key in the environment
InitGateway ==
    /\ env_api_key = "kE"
    /\ genai_key = "kE"
    /\ ss = [s \in Sessions |->
                IF s = "s1"
                    THEN [NewSession EXCEPT !.api_key = "kE",
                                            !.model = GenerativeModel("s1", None, "kE"),
                                            !.rendered = "chat"]
                    ELSE NewSession]
    /\ ev = NoEvent

HistoryTurns == { Message("user", <<"h", "i">>), Message("assistant", <<"o", "k">>) }

GatewayTexts == { <<"y", "o">> }

GatewayOutcomes == { [ok |-> TRUE, text |-> <<"o", "k">>] }

\* the chat_history argument: any list of turns
History ==
    /\ ev.kind # "send"
    /\ Len(ss["s1"].messages) < MaxHist
    /\ \E m \in HistoryTurns :
        ss' = [ss EXCEPT !["s1"].messages = Append(@, m)]
    /\ ev' = [NoEvent EXCEPT !.kind = "history"]
    /\ UNCHANGED <<env_api_key, genai_key>>

GatewaySend ==
    /\ ev.kind # "send"
    /\ Send("s1", {}, {}, GatewayTexts, GatewayOutcomes, MaxHist)

NextGateway == History \/ GatewaySend

SpecGateway == InitGateway /\ [][NextGateway]_vars

----------------------------------------------------------------------------
(* Vocabulary of the properties *)

\* the session the last step belonged to
Actor == ev.s

Last(q) == q[Len(q)]

Min(a, b) == IF a < b THEN a ELSE b

\* no stored credential, or no client handle
Unconfigured(st) == st.api_key = NoKey \/ st.model = None

\* text is exactly the given lines, each followed by one newline
RECURSIVE IsLines(_, _)
IsLines(text, lines) ==
    IF lines = << >>
        THEN text = NoText
        ELSE LET n == Len(Head(lines))
             IN  /\ Len(text) > n
                 /\ SubSeq(text, 1, n) = Head(lines)
                 /\ text[n + 1] = "\n"
                 /\ IsLines(SubSeq(text, n + 2, Len(text)), Tail(lines))

\* lines joined by single newlines
RECURSIVE JoinLines(_)
JoinLines(lines) ==
    IF lines = << >> THEN NoText
    ELSE IF Len(lines) = 1 THEN lines[1]
    ELSE lines[1] \o <<"\n">> \o JoinLines(Tail(lines))

\* "<role>: <content>"
Rendered(m) == RoleText(m.role) \o <<":", " ">> \o m.content

\* the last min(n, 10) turns of a log of n turns, rendered, oldest first
WindowLines(prior) ==
    LET n == Len(prior)
        k == Min(n, 10)
    IN  [i \in 1..k |-> Rendered(prior[n - k + i])]

\* the last step was a send that reached the remote service
Called == ev.kind = "send" /\ ev.call.called

----------------------------------------------------------------------------
(* C1 *)

\* C1: a send of a non-blank utterance U, handled while the session holds a
\* client handle, leaves the log equal to the log before it followed by
\* exactly {user, U} and {assistant, R}, R being what get_gemini_response
\* returned, whether the remote call succeeded or raised.
C1_SendAppendsTwo ==
    [][ \A s \in Sessions :
          ( /\ ev'.kind = "send" /\ ev'.s = s
            /\ strip(ev'.user_input) # NoText
            /\ ~Unconfigured(ss[s]) /\ ~ev'.cfg_failed )
          => /\ ev'.call.called
             /\ ss'[s].messages =
                    ss[s].messages \o << Message("user", ev'.user_input),
                                         Message("assistant", ev'.call.returned) >>
             /\ Len(ss'[s].messages) = Len(ss[s].messages) + 2 ]_vars

\* a send whose remote call raised, on a log that already held two turns
C1_Witness ==
    /\ ev.kind = "send" /\ ev.call.called /\ ev.call.raised
    /\ ev.nbefore = 2
    /\ Len(ss[Actor].messages) = 4

----------------------------------------------------------------------------
(* C2 *)

\* C2 (as stated): when the remote call raises, the string returned is
\* non-empty, differs from every text a successful call can return, and is
\* the assistant turn appended by this send.
C2_ErrorDistinctFromReplies ==
    (Called /\ ev.call.raised)
    => /\ ev.call.returned # NoText
       /\ \A o \in Outcomes : o.ok => ev.call.returned # o.text
       /\ Last(ss[Actor].messages) = Message("assistant", ev.call.returned)

\* C2 (amended): when the remote call raises, get_gemini_response returns
\* the non-empty string "Error getting response: " followed by the error's
\* text, and that string is the assistant turn appended by this send, right
\* after the user turn.
C2_ErrorTextAppended ==
    (Called /\ ev.call.raised)
    => LET log == ss[Actor].messages
       IN  /\ ev.call.returned # NoText
           /\ Len(ev.call.returned) = Len(ERROR_PREFIX) + Len(ev.call.text)
           /\ SubSeq(ev.call.returned, 1, Len(ERROR_PREFIX)) = ERROR_PREFIX
           /\ SubSeq(ev.call.returned, Len(ERROR_PREFIX) + 1, Len(ev.call.returned))
                  = ev.call.text
           /\ Len(log) = ev.nbefore + 2
           /\ log[Len(log) - 1] = Message("user", ev.user_input)
           /\ Last(log) = Message("assistant", ev.call.returned)

\* a send whose remote call raised
C2_Witness ==
    /\ Called /\ ev.call.raised
    /\ Last(ss[Actor].messages).role = "assistant"
    /\ Last(ss[Actor].messages).content = ERROR_PREFIX \o <<"4", "2", "9">>

----------------------------------------------------------------------------
(* C3 *)

\* C3: the history handed to the gateway is the log without the utterance
\* being sent, and the context rendered from a history of n turns consists
\* of exactly the last min(n, 10) of them, one "<role>: <content>" line
\* each, oldest first.
C3_ContextWindow ==
    Called
    => LET log   == ss[Actor].messages
           prior == SubSeq(log, 1, Len(log) - 2)
       IN  /\ ev.call.history = prior
           /\ Len(prior) = ev.nbefore
           /\ IsLines(ev.call.context, WindowLines(prior))

\* a send with 15 prior turns
C3_Witness ==
    /\ Called
    /\ Len(ev.call.history) = 15
    /\ IsLines(ev.call.context,
               [i \in 1..10 |-> Rendered(ev.call.history[5 + i])])

----------------------------------------------------------------------------
(* C4 *)

\* C4 (as stated): the text sent is the rendered context, a blank line and
\* the new utterance without a role prefix; with an empty history it is the
\* utterance alone.
C4_PromptRoleless ==
    Called
    => IF ev.call.history = << >>
          THEN ev.call.prompt = ev.user_input
          ELSE ev.call.prompt =
                  JoinLines(WindowLines(ev.call.history)) \o <<"\n", "\n">>
                      \o ev.user_input

\* C4 (amended): the text sent is the rendered context, a blank line and
\* the new utterance prefixed with "user: "; with an empty history it is
\* the utterance alone.
C4_PromptUserPrefixed ==
    Called
    => IF ev.call.history = << >>
          THEN ev.call.prompt = ev.user_input
          ELSE ev.call.prompt =
                  JoinLines(WindowLines(ev.call.history)) \o <<"\n", "\n">>
                      \o <<"u", "s", "e", "r", ":", " ">> \o ev.user_input

\* a send with three prior turns
C4_Witness ==
    /\ Called
    /\ Len(ev.call.history) = 3
    /\ ev.call.prompt # ev.user_input

----------------------------------------------------------------------------
(* C5 *)

\* C5: a send leaves the log as it was and makes no completion call when
\* the submitted text is empty or whitespace-only, or when the session is
\* unconfigured (no stored credential, or no client handle) before the run
\* or when the run reaches the chat interface.
C5_SendRejected ==
    [][ \A s \in Sessions :
          ( /\ ev'.kind = "send" /\ ev'.s = s
            /\ \/ strip(ev'.user_input) = NoText
               \/ Unconfigured(ss[s])
               \/ Unconfigured(ss'[s]) )
          => /\ ss'[s].messages = ss[s].messages
             /\ ~ev'.call.called ]_vars

\* a whitespace-only send on a configured session whose log holds two turns
C5_Witness ==
    /\ ev.kind = "send"
    /\ ev.user_input = <<" ", "\t">>
    /\ ~Unconfigured(ss[Actor])
    /\ Len(ss[Actor].messages) = 2
    /\ ~ev.call.called

----------------------------------------------------------------------------
(* C6 *)

\* C6: the clear action leaves an empty log whatever the log was, and a
\* clear that follows a clear (same environment) leaves the log and the
\* stored credential it found.
C6_ClearEmptiesLog ==
    [][ \A s \in Sessions :
          (ev'.kind = "clear" /\ ev'.s = s)
          => /\ ss'[s].messages = << >>
             /\ (ev.kind = "clear" /\ ev.s = s /\ ev'.env = ev.env)
                    => /\ ss'[s].messages = ss[s].messages
                       /\ ss'[s].api_key = ss[s].api_key
                       /\ ss'[s].model.key = ss[s].model.key ]_vars

\* a clear of a log that held four turns
C6_Witness ==
    /\ ev.kind = "clear"
    /\ ev.nbefore = 4
    /\ ss[Actor].messages = << >>

----------------------------------------------------------------------------
(* C7 *)

\* C7: when a run's configure attempt fails, the handle the session held
\* before the run is still the session's handle, and no new one is stored.
C7_FailedConfigureKeepsHandle ==
    [][ \A s \in Sessions :
          (ev'.s = s /\ ev'.cfg_failed)
          => ss'[s].model = ss[s].model ]_vars

----------------------------------------------------------------------------
(* C8 *)

\* C8: after every run that finds a key in the environment, the credential
\* stored in the session is the environment's, and so is the credential the
\* session's handle was built from.
C8_EnvironmentKeyWins ==
    (ev.kind \in {"run", "configure", "clear", "send"} /\ ev.env # NoKey)
    => /\ ss[Actor].api_key = ev.env
       /\ ss[Actor].model # None => ss[Actor].model.key = ev.env

----------------------------------------------------------------------------
(* C9 *)

\* C9: a step stores a newly constructed handle only when its credential
\* differs from the one the previous handle was built from; otherwise the
\* handle stays the same object.
C9_HandleReused ==
    [][ \A s \in Sessions :
          (ss'[s].model # None /\ ~SameObject(ss'[s].model, ss[s].model))
          => ss'[s].model.key # ss[s].model.key ]_vars

----------------------------------------------------------------------------
(* C10 *)

\* C10: a step of one session leaves the other session's log and handle as
\* they were, and every completion call of a session is made with the
\* credential that session configured its handle with.
C10_SessionsIsolated ==
    [][ /\ \A t \in Sessions :
              t # ev'.s => /\ ss'[t].messages = ss[t].messages
                           /\ ss'[t].model = ss[t].model
        /\ ev'.call.called => ev'.call.used_key = ev'.call.handle_key ]_vars

====
